---- MODULE Spec2Model ----
(***************************************************************************)
(* Model of openmdao/recorders/recording_iteration_stack.py:               *)
(*   - the process-wide object recording_iteration (stack, prefix),        *)
(*   - get_formatted_iteration_coordinate,                                 *)
(*   - the context manager Recording (__init__, __enter__, __exit__),      *)
(* driven by a single-threaded caller that uses Recording objects in       *)
(* 'with' statements.  Python str values are TLA+ strings, Python lists    *)
(* are sequences, Python None is the value None below.                     *)
(***************************************************************************)
EXTENDS Integers, Sequences, FiniteSets, TLC

\* ---------------------------------------------------------------- bounds
\* Number of Recording objects the caller constructs.
MaxScopes == 2

\* Number of 'with' statements the caller executes.
MaxEnters == 2
\* Largest stack depth whose coordinate is formatted on its own.
MaxCoordLen == 2

\* ------------------------------------------------------- input domains
\* Python's None.
None == "<None>"

\* (name, iter_count) arguments the caller constructs Recording objects with.
FrameArgs == {<<"root", 6>>, <<"mda", 45>>,
              <<"_run_apply", 6>>, <<"_compute_totals", 45>>}

\* The same for the runs that format coordinates.
FormatFrameArgs == {"root", "mda"} \X {6, 45}

\* Requesters that are instances of openmdao.solvers.solver.Solver.
Solvers == {"solver"}

\* Requesters that are not Solvers (drivers, systems).
NonSolvers == {"system"}

\* What the caller may pass as recording_requester.
RequesterArgs == Solvers \cup NonSolvers \cup {None}

\* (abs, rel) values a caller stores in rec.abs and rec.rel.
ErrValues == {<<3, 7>>}

\* Values assigned to recording_iteration.prefix by the recorders.
PrefixValues == {None, "", "run"}

\* MPI is falsy without a distributed context, else COMM_WORLD.rank is read.
MPIValues == {-1, 0, 1}

\* Exceptions in flight in the caller.
NoExc == "no exception"
BodyError == "BodyError"
RecordError == "RecordError"
AttributeError == "AttributeError"
IndexError == "IndexError"

VARIABLES
  stack,        \* recording_iteration.stack: list of (name, iter_count)
  prefix,       \* recording_iteration.prefix
  MPI,          \* openmdao.utils.mpi.MPI: -1 when falsy, else the rank
  scopes,       \* the Recording objects constructed so far, by identity
  open,         \* the caller's active 'with' blocks, outermost first
  exc,          \* the exception propagating in the caller, or NoExc
  lastExit,     \* what the most recent execution of __exit__ did
  invocations,  \* per Recording object, record_iteration calls it made
  lifecycle,    \* per Recording object: Unopened, Open or Closed
  lastCoord,    \* result of the last get_formatted_iteration_coordinate()
  nEnters       \* number of 'with' statements executed

vars == <<stack, prefix, MPI, scopes, open, exc, lastExit, invocations,
          lifecycle, lastCoord, nEnters>>

\* ------------------------------------------------------- Python helpers
\* bool(x) of a str-or-None value.
Truthy(x) == x # None /\ x # ""

\* One decimal digit.
Digit(d) ==
  CASE d = 0 -> "0" [] d = 1 -> "1" [] d = 2 -> "2" [] d = 3 -> "3"
    [] d = 4 -> "4" [] d = 5 -> "5" [] d = 6 -> "6" [] d = 7 -> "7"
    [] d = 8 -> "8" [] d = 9 -> "9"

RECURSIVE NatStr(_)
\* Decimal rendering of a natural number.
NatStr(n) == IF n < 10 THEN Digit(n) ELSE NatStr(n \div 10) \o Digit(n % 10)

\* '%d' % n and '{}'.format(n) for an int n.
IntStr(n) == IF n < 0 THEN "-" \o NatStr(0 - n) ELSE NatStr(n)

RECURSIVE Join(_, _)
\* sep.join(list)
Join(sep, list) ==
  IF list = <<>> THEN ""
  ELSE IF Len(list) = 1 THEN list[1]
  ELSE list[1] \o sep \o Join(sep, Tail(list))

\* ------------------------------------- get_formatted_iteration_coordinate
separator == "|"

\* Variant: the frames taken innermost first, as the debug print does.
CoordListReversed(stk) ==
  [i \in 1..Len(stk) |->
     stk[Len(stk) + 1 - i][1] \o separator \o IntStr(stk[Len(stk) + 1 - i][2])]

\* Variant: name and iteration count concatenated without the separator.
CoordListNoSeparator(stk) ==
  [i \in 1..Len(stk) |-> stk[i][1] \o IntStr(stk[i][2])]

\* The loop over recording_iteration.stack building coord_list.
CoordList(stk) ==
  [i \in 1..Len(stk) |-> stk[i][1] \o separator \o IntStr(stk[i][2])]

\* Variant: the prefix is tested with 'is not None'.
PrefixPartNotNone(pfx, mpi) ==
  (IF pfx # None THEN pfx \o "_" ELSE "")
    \o (IF mpi # -1 THEN "rank" \o IntStr(mpi) \o ":" ELSE "rank0:")

\* The prefix part: '<prefix>_' when the prefix is truthy, then the rank.
PrefixPart(pfx, mpi) ==
  (IF Truthy(pfx) THEN pfx \o "_" ELSE "")
    \o (IF mpi # -1 THEN "rank" \o IntStr(mpi) \o ":" ELSE "rank0:")

\* The function on given globals.
FormatCoordinate(stk, pfx, mpi) ==
  PrefixPart(pfx, mpi) \o Join(separator, CoordList(stk))

\* The function as called: it reads the module globals.
get_formatted_iteration_coordinate == FormatCoordinate(stack, prefix, MPI)

\* ------------------------------------------------------------ Recording
\* Frame names for which no recording is done.
SentinelNames == {"_run_apply", "_compute_totals"}

\* Variant: only the innermost frame is looked at.
DoRecordingTopOnly(stk) ==
  stk = <<>> \/ stk[Len(stk)][1] \notin SentinelNames

\* The loop of __exit__ that decides do_recording.
DoRecording(stk) == ~ \E i \in 1..Len(stk) : stk[i][1] \in SentinelNames

\* isinstance(recording_requester, Solver)
IsSolver(req) == req \in Solvers

\* Recording.__init__
NewRecording(name, iter_count, requester) ==
  [name |-> name, iter_count |-> iter_count,
   recording_requester |-> requester,
   abs |-> 0, rel |-> 0, _is_solver |-> IsSolver(requester)]

\* Variant: abs and rel passed in each other's place.
RecordCallsSwapped(rec, stk) ==
  IF ~DoRecording(stk) THEN <<>>
  ELSE IF rec._is_solver
       THEN << [requester |-> rec.recording_requester,
                form |-> "abs_rel", args |-> <<rec.rel, rec.abs>>] >>
       ELSE << [requester |-> rec.recording_requester,
                form |-> "no_args", args |-> <<>>] >>

\* Variant: a solver is recorded in both forms.
RecordCallsBoth(rec, stk) ==
  IF ~DoRecording(stk) THEN <<>>
  ELSE IF rec._is_solver
       THEN << [requester |-> rec.recording_requester,
                form |-> "abs_rel", args |-> <<rec.abs, rec.rel>>],
               [requester |-> rec.recording_requester,
                form |-> "no_args", args |-> <<>>] >>
       ELSE << [requester |-> rec.recording_requester,
                form |-> "no_args", args |-> <<>>] >>

\* The record_iteration calls __exit__ attempts for rec on stack stk:
\* none when recording is not justified, else one, whose form follows
\* rec._is_solver.
RecordCalls(rec, stk) ==
  IF ~DoRecording(stk) THEN <<>>
  ELSE IF rec._is_solver
       THEN << [requester |-> rec.recording_requester,
                form |-> "abs_rel", args |-> <<rec.abs, rec.rel>>] >>
       ELSE << [requester |-> rec.recording_requester,
                form |-> "no_args", args |-> <<>>] >>

\* The value __exit__ returns (it has no return statement).
ExitReturnValue == None

\* No __exit__ has run yet.
NoExit ==
  [scope |-> 0, bodyFailed |-> FALSE, stackBefore |-> <<>>,
   preOpenDepth |-> 0, depthAfter |-> 0,
   requesterBefore |-> None, absBefore |-> 0, relBefore |-> 0,
   calls |-> <<>>, raised |-> NoExc, popped |-> FALSE,
   requesterAfter |-> None, excAfter |-> NoExc]

\* ---------------------------------------------------------------- Init
Init ==
  /\ stack = <<>>
  /\ prefix = None
  /\ MPI = -1
  /\ scopes = <<>>
  /\ open = <<>>
  /\ exc = NoExc
  /\ lastExit = NoExit
  /\ invocations = <<>>
  /\ lifecycle = <<>>
  /\ lastCoord = None
  /\ nEnters = 0

\* ------------------------------------------------------------- actions
\* rec = Recording(name, iter_count, requester), arguments drawn from the
\* given sets.  The caller constructs a Recording when it is about to use
\* it ('with Recording(...) as rec:'), so at most one object is unopened.
ConstructFrom(frameArgs, requesters) ==
  /\ exc = NoExc
  /\ Len(scopes) < MaxScopes
  /\ \A s \in DOMAIN scopes : lifecycle[s] # "Unopened"
  /\ \E fa \in frameArgs, req \in requesters :
       scopes' = Append(scopes, NewRecording(fa[1], fa[2], req))
  /\ invocations' = Append(invocations, 0)
  /\ lifecycle' = Append(lifecycle, "Unopened")
  /\ UNCHANGED <<stack, prefix, MPI, open, exc, lastExit, lastCoord, nEnters>>

\* The caller of the recording runs constructs a Recording.
Construct == ConstructFrom(FrameArgs, RequesterArgs)

\* The caller of the formatting runs constructs a Recording.
ConstructForFormat == ConstructFrom(FormatFrameArgs, NonSolvers)

\* 'with rec:' reaches rec.__enter__() for one of the given objects; the
\* caller executes at most limit 'with' statements.
EnterAmong(limit, objects) ==
  /\ exc = NoExc
  /\ nEnters < limit
  /\ \E s \in objects :
       /\ stack' = Append(stack, <<scopes[s].name, scopes[s].iter_count>>)
       /\ open' = Append(open, [scope |-> s, depth |-> Len(stack)])
       /\ lifecycle' = [lifecycle EXCEPT ![s] = "Open"]
  /\ nEnters' = nEnters + 1
  /\ UNCHANGED <<prefix, MPI, scopes, exc, lastExit, invocations, lastCoord>>

\* 'with rec:' for any Recording constructed so far.
EnterUpTo(limit) == EnterAmong(limit, DOMAIN scopes)

\* 'with rec:' in the recording and formatting runs.
Enter == EnterUpTo(MaxEnters)

\* rec.abs = a; rec.rel = r, inside the body of the innermost open block
SetErrors ==
  /\ exc = NoExc
  /\ open # <<>>
  /\ \E v \in ErrValues :
       /\ <<scopes[open[Len(open)].scope].abs,
            scopes[open[Len(open)].scope].rel>> # v
       /\ scopes' = [scopes EXCEPT ![open[Len(open)].scope].abs = v[1],
                                   ![open[Len(open)].scope].rel = v[2]]
  /\ UNCHANGED <<stack, prefix, MPI, open, exc, lastExit, invocations,
                 lifecycle, lastCoord, nEnters>>

\* The body of the innermost open block raises.
BodyRaise ==
  /\ exc = NoExc
  /\ open # <<>>
  /\ exc' = BodyError
  /\ UNCHANGED <<stack, prefix, MPI, scopes, open, lastExit, invocations,
                 lifecycle, lastCoord, nEnters>>

\* A try/except around the current position handles the exception.
Catch ==
  /\ exc # NoExc
  /\ exc' = NoExc
  /\ UNCHANGED <<stack, prefix, MPI, scopes, open, lastExit, invocations,
                 lifecycle, lastCoord, nEnters>>

\* Variant: the first item is removed, as list.pop(0) does.
PopFirst(stk) == SubSeq(stk, 2, Len(stk))

\* recording_iteration.stack.pop(): the list without its last item.
Pop(stk) == SubSeq(stk, 1, Len(stk) - 1)

\* Variant: popping an empty list passes silently.
PopNeverRaises(stk) == FALSE

\* list.pop() raises IndexError on an empty list.
PopRaises(stk) == stk = <<>>

\* Variant: an exception raised inside __exit__ is dropped.
ExcAfterWithSwallowed(raised, bodyExc) == bodyExc

\* The exception that leaves a 'with' statement whose __exit__ raised
\* `raised` (or NoExc) and whose body raised bodyExc (or NoExc): __exit__'s
\* own exception, else the body's unless __exit__ returned a true value.
ExcAfterWith(raised, bodyExc) ==
  IF raised # NoExc THEN raised
  ELSE IF bodyExc # NoExc /\ ~Truthy(ExitReturnValue) THEN bodyExc
  ELSE NoExc

\* rec.__exit__(*args) runs for the 'with' block open[idx]; outcome, drawn
\* from outcomes, is what record_iteration does if it is called.
ExitBlock(idx, outcomes) ==
  \E outcome \in outcomes :
       LET top    == open[idx]
           s      == top.scope
           rec    == scopes[s]
           calls  == RecordCalls(rec, stack)
           \* the attribute lookup on None fails before any call is made
           made   == IF rec.recording_requester = None THEN <<>> ELSE calls
           raised1 == IF calls = <<>> THEN NoExc
                      ELSE IF rec.recording_requester = None
                           THEN AttributeError
                      ELSE IF outcome = "raise" THEN RecordError
                      ELSE NoExc
           \* lines 155-160 run only if nothing was raised above
           raised == IF raised1 # NoExc THEN raised1
                     ELSE IF PopRaises(stack) THEN IndexError
                     ELSE NoExc
           popped == raised = NoExc
           stackAfter == IF popped THEN Pop(stack) ELSE stack
           reqAfter == IF raised1 = NoExc THEN None
                       ELSE rec.recording_requester
           excAfter == ExcAfterWith(raised, exc)
           stillOpen == \E i \in DOMAIN open \ {idx} : open[i].scope = s
       IN
       /\ (calls = <<>> \/ rec.recording_requester = None)
             => outcome = "return"
       /\ stack' = stackAfter
       /\ scopes' = [scopes EXCEPT ![s].recording_requester = reqAfter]
       /\ open' = SubSeq(open, 1, idx - 1) \o SubSeq(open, idx + 1, Len(open))
       /\ exc' = excAfter
       /\ invocations' = [invocations EXCEPT ![s] = @ + Len(made)]
       /\ lifecycle' = [lifecycle EXCEPT
                          ![s] = IF stillOpen THEN "Open" ELSE "Closed"]
       /\ lastExit' =
            [scope |-> s, bodyFailed |-> exc # NoExc,
             stackBefore |-> stack, preOpenDepth |-> top.depth,
             depthAfter |-> Len(stackAfter),
             requesterBefore |-> rec.recording_requester,
             absBefore |-> rec.abs, relBefore |-> rec.rel,
             calls |-> made, raised |-> raised,
             popped |-> popped, requesterAfter |-> reqAfter,
             excAfter |-> excAfter]

\* The innermost 'with' block is left, normally or by an exception:
\* rec.__exit__(*args) runs; record_iteration, if called, returns or raises.
Exit ==
  /\ open # <<>>
  /\ ExitBlock(Len(open), {"return", "raise"})
  /\ UNCHANGED <<prefix, MPI, lastCoord, nEnters>>

\* recording_iteration.prefix = p, done by a recorder between runs
SetPrefix ==
  /\ exc = NoExc
  /\ \E p \in PrefixValues : p # prefix /\ prefix' = p
  /\ UNCHANGED <<stack, MPI, scopes, open, exc, lastExit, invocations,
                 lifecycle, lastCoord, nEnters>>

\* Variant: the frames are consumed while they are rendered.
FormatCallConsuming ==
  /\ exc = NoExc
  /\ lastCoord' = get_formatted_iteration_coordinate
  /\ lastCoord' # lastCoord
  /\ stack' = <<>>
  /\ UNCHANGED <<prefix, MPI, scopes, open, exc, lastExit,
                 invocations, lifecycle, nEnters>>

\* coord = get_formatted_iteration_coordinate()
FormatCall ==
  /\ exc = NoExc
  /\ lastCoord' = get_formatted_iteration_coordinate
  /\ lastCoord' # lastCoord
  /\ UNCHANGED <<stack, prefix, MPI, scopes, open, exc, lastExit,
                 invocations, lifecycle, nEnters>>

Next ==
  \/ Construct
  \/ Enter
  \/ SetErrors
  \/ BodyRaise
  \/ Catch
  \/ Exit

Spec == Init /\ [][Next]_vars

\* The runs that format coordinates: any rank, prefix set between scopes.
InitFormat ==
  /\ stack = <<>>
  /\ prefix = None
  /\ MPI \in MPIValues
  /\ scopes = <<>>
  /\ open = <<>>
  /\ exc = NoExc
  /\ lastExit = NoExit
  /\ invocations = <<>>
  /\ lifecycle = <<>>
  /\ lastCoord = None
  /\ nEnters = 0

NextFormat ==
  \/ ConstructForFormat
  \/ Enter
  \/ Exit
  \/ Catch
  \/ SetPrefix
  \/ FormatCall

SpecFormat == InitFormat /\ [][NextFormat]_vars

\* ------------------------------------------------------------ properties
\* Some frame of stk carries one of the two bookkeeping names.
HasSentinel(stk) ==
  \E i \in 1..Len(stk) :
    stk[i][1] = "_run_apply" \/ stk[i][1] = "_compute_totals"

\* An execution of __exit__ has happened.
Exited == lastExit.scope # 0

\* Every Recording constructed so far was given a Solver as requester, so
\* that no absent requester (C7) plays a part.
OnlySolverScopes == \A s \in DOMAIN scopes : scopes[s]._is_solver

\* C1: Balance.  Once every opened scope has closed the stack is as long as
\* before the first scope was opened (empty), and when record_iteration
\* raised in a close, that close has popped its frame.  Stated for scopes
\* whose requester is present.
C1_Balance ==
  /\ (OnlySolverScopes /\ open = <<>>) => Len(stack) = 0
  /\ (Exited /\ lastExit.raised = RecordError) => lastExit.popped

\* C2: Suppression.  A close that finds a sentinel name in any frame of the
\* stack makes no record_iteration call, pops, and leaves the stack at the
\* depth it had before the scope was opened.
C2_Suppression ==
  (Exited /\ HasSentinel(lastExit.stackBefore)) =>
    /\ lastExit.calls = <<>>
    /\ lastExit.popped
    /\ lastExit.depthAfter = lastExit.preOpenDepth
    /\ lastExit.raised = NoExc

\* C2 witness: a solver's scope named root closed under an ancestor frame
\* named _run_apply.
C2_Witness ==
  /\ Exited
  /\ Len(lastExit.stackBefore) = 2
  /\ lastExit.stackBefore[1][1] = "_run_apply"
  /\ lastExit.stackBefore[2][1] = "root"
  /\ lastExit.requesterBefore = "solver"
  /\ lastExit.calls = <<>>
  /\ lastExit.depthAfter = 1

\* C3: Capability dispatch.  A close with a present requester and no
\* sentinel frame calls record_iteration exactly once on that requester: a
\* Solver gets (abs, rel) as the fields stand at close, any other requester
\* gets no arguments.
C3_Dispatch ==
  (Exited /\ lastExit.requesterBefore # None
          /\ ~HasSentinel(lastExit.stackBefore)) =>
    /\ Len(lastExit.calls) = 1
    /\ lastExit.calls[1].requester = lastExit.requesterBefore
    /\ IF lastExit.requesterBefore = "solver"
       THEN /\ lastExit.calls[1].form = "abs_rel"
            /\ lastExit.calls[1].args =
                 <<lastExit.absBefore, lastExit.relBefore>>
       ELSE /\ lastExit.calls[1].form = "no_args"
            /\ lastExit.calls[1].args = <<>>

\* C3 witness: a solver's scope closed after the caller set abs = 3, rel = 7
\* and the solver received exactly those.
C3_Witness ==
  /\ Exited
  /\ lastExit.requesterBefore = "solver"
  /\ lastExit.absBefore = 3
  /\ lastExit.relBefore = 7
  /\ Len(lastExit.calls) = 1
  /\ lastExit.calls[1].args = <<3, 7>>

\* C4 as stated: every execution of __exit__ (the requester being present)
\* makes exactly one record_iteration call.
C4_ExactlyOne ==
  (Exited /\ lastExit.requesterBefore # None) => Len(lastExit.calls) = 1

\* C4 amended: an execution of __exit__ makes at most one record_iteration
\* call, never both forms; it makes one exactly when the requester is
\* present and no frame has a sentinel name, and none otherwise.
C4_AtMostOne ==
  Exited =>
    /\ Len(lastExit.calls) <= 1
    /\ Len(lastExit.calls) = 1 <=>
         (lastExit.requesterBefore # None
            /\ ~HasSentinel(lastExit.stackBefore))

\* C4 witness: a close of a scope named _compute_totals with a present
\* requester made no call.
C4_Witness ==
  /\ Exited
  /\ Len(lastExit.stackBefore) = 1
  /\ lastExit.stackBefore[1][1] = "_compute_totals"
  /\ lastExit.requesterBefore = "system"
  /\ lastExit.calls = <<>>

\* C5: Stack reflects open scopes.  The stack is exactly the (name,
\* iter_count) pairs of the currently open scopes, outermost first.  Stated
\* for scopes whose requester is present.
C5_StackReflectsOpen ==
  OnlySolverScopes =>
    stack = [i \in 1..Len(open) |->
               <<scopes[open[i].scope].name,
                 scopes[open[i].scope].iter_count>>]

\* C6: Coordinate format and ordering.  The coordinate is the prefix
\* segment, then rank<r>:, then the frames as name|iter_count joined by |
\* in insertion order: the empty stack gives only prefix and rank segments,
\* each further frame extends the coordinate of the frames before it at its
\* end, and [(root, 6), (mda, 45)] without prefix at rank 0 gives
\* rank0:root|6|mda|45.
C6_Format ==
  LET pfxSeg  == IF prefix = None \/ prefix = "" THEN "" ELSE prefix \o "_"
      rankSeg == "rank" \o (IF MPI = -1 THEN "0" ELSE ToString(MPI)) \o ":"
      n       == Len(stack)
  IN
  /\ stack = <<>> => get_formatted_iteration_coordinate = pfxSeg \o rankSeg
  /\ n = 1 =>
       get_formatted_iteration_coordinate =
         pfxSeg \o rankSeg \o stack[1][1] \o "|" \o ToString(stack[1][2])
  /\ n > 1 =>
       get_formatted_iteration_coordinate =
         FormatCoordinate(SubSeq(stack, 1, n - 1), prefix, MPI)
           \o "|" \o stack[n][1] \o "|" \o ToString(stack[n][2])
  /\ (stack = << <<"root", 6>>, <<"mda", 45>> >> /\ prefix = None
        /\ MPI \in {-1, 0}) =>
       get_formatted_iteration_coordinate = "rank0:root|6|mda|45"

\* C6 witness: the coordinate was formatted with root/6 then mda/45 on the
\* stack, no prefix, rank 0.
C6_Witness ==
  /\ stack = << <<"root", 6>>, <<"mda", 45>> >>
  /\ prefix = None
  /\ MPI = 0
  /\ lastCoord = "rank0:root|6|mda|45"

\* C7: Recording(name, iter_count, None) fails at construction: no
\* Recording that has not been opened yet holds an absent requester.
C7_AbsentRequesterRejected ==
  \A s \in DOMAIN scopes :
    lifecycle[s] = "Unopened" => scopes[s].recording_requester # None

\* C8: One-shot scope.  Closed is terminal: a closed Recording is never
\* entered again and never makes another record_iteration call.
C8_OneShot ==
  [][\A s \in DOMAIN scopes :
       lifecycle[s] = "Closed" =>
         lifecycle'[s] = "Closed" /\ invocations'[s] = invocations[s]]_vars

\* C9: Close on a failing body.  When the body left by a propagating
\* failure, __exit__ (of a scope with a present requester) calls
\* record_iteration exactly when no frame has a sentinel name, pops the
\* frame, and a failure goes on propagating.
C9_CloseOnFailure ==
  (Exited /\ lastExit.bodyFailed /\ lastExit.requesterBefore # None) =>
    /\ Len(lastExit.calls) = 1 <=> ~HasSentinel(lastExit.stackBefore)
    /\ lastExit.popped
    /\ lastExit.excAfter # NoExc

\* C10: Requester release.  After any execution of __exit__ the scope's
\* recording_requester is None.
C10_RequesterReleased == Exited => lastExit.requesterAfter = None

\* C11: A recording-callback failure is neither swallowed nor retried.  When
\* record_iteration raised in a close, that close called it once and the
\* same error leaves the 'with' statement.
C11_NotSwallowedNotRetried ==
  (Exited /\ lastExit.raised = RecordError) =>
    /\ Len(lastExit.calls) = 1
    /\ lastExit.excAfter = RecordError

\* C11 witness: the only scope was closed with record_iteration raising and
\* the error is with the caller that opened it.
C11_Witness ==
  /\ Exited
  /\ lastExit.raised = RecordError
  /\ Len(lastExit.calls) = 1
  /\ invocations[lastExit.scope] = 1
  /\ open = <<>>
  /\ exc = RecordError

\* Every Recording constructed so far has been entered exactly once.
EachEnteredOnce ==
  /\ nEnters = Len(scopes)
  /\ \A s \in DOMAIN scopes : lifecycle[s] # "Unopened"

\* C16: Callback-before-pop ordering.  When a close calls record_iteration
\* the closing scope's own frame is the tail of the stack, so the coordinate
\* formatted at that moment ends with its name|iter_count segment, and the
\* frame is popped only if the callback returned.  Stated for Recording
\* objects that have a present requester and are entered once each.
C16_CallbackBeforePop ==
  (Exited /\ lastExit.calls # <<>> /\ EachEnteredOnce /\ OnlySolverScopes) =>
    LET sb  == lastExit.stackBefore
        n   == Len(sb)
        rec == scopes[lastExit.scope]
    IN
    /\ n = lastExit.preOpenDepth + 1
    /\ sb[n] = <<rec.name, rec.iter_count>>
    /\ FormatCoordinate(sb, prefix, MPI) =
         FormatCoordinate(SubSeq(sb, 1, n - 1), prefix, MPI)
           \o (IF n > 1 THEN "|" ELSE "")
           \o rec.name \o "|" \o ToString(rec.iter_count)
    /\ lastExit.popped => lastExit.raised = NoExc

\* C17: Suppression flows only from ancestors to descendants.  A close of a
\* scope with a present requester, none of whose open scopes (itself and its
\* ancestors) has a sentinel name, calls record_iteration, whatever scopes
\* were opened and closed inside it.
C17_AncestorsOnly ==
  [][Len(open') < Len(open) =>
       LET blk == open[Len(open)] IN
       ((\A i \in DOMAIN open :
            /\ scopes[open[i].scope].name # "_run_apply"
            /\ scopes[open[i].scope].name # "_compute_totals")
          /\ scopes[blk.scope].recording_requester # None)
       => (lastExit'.scope = blk.scope /\ Len(lastExit'.calls) = 1)]_vars

\* C17 witness: scope root closed with its callback called, after a scope
\* named _run_apply was opened and closed inside it.
C17_Witness ==
  /\ Exited
  /\ Len(scopes) = 2
  /\ scopes[1].name = "root"
  /\ scopes[2].name = "_run_apply"
  /\ lifecycle[2] = "Closed"
  /\ nEnters = 2
  /\ open = <<>>
  /\ lastExit.scope = 1
  /\ Len(lastExit.calls) = 1
  /\ lastExit.raised = NoExc

\* The rank segment of a coordinate.
RankSegment == "rank" \o ToString(IF MPI = -1 THEN 0 ELSE MPI) \o ":"

\* C13 as stated: whenever the prefix is a string p the coordinate is p, _,
\* then the coordinate of the same stack and rank without prefix; without a
\* prefix it starts with the rank segment.
C13_PrefixRendering ==
  /\ prefix # None =>
       get_formatted_iteration_coordinate =
         prefix \o "_" \o FormatCoordinate(stack, None, MPI)
  /\ prefix = None =>
       get_formatted_iteration_coordinate =
         RankSegment \o Join("|", CoordList(stack))

\* C13 amended: whenever the prefix is a non-empty string p the coordinate
\* is p, _, then the coordinate of the same stack and rank without prefix;
\* when the prefix is absent or the empty string it starts with the rank
\* segment.
C13_NonEmptyPrefix ==
  /\ (prefix # None /\ prefix # "") =>
       get_formatted_iteration_coordinate =
         prefix \o "_" \o FormatCoordinate(stack, None, MPI)
  /\ (prefix = None \/ prefix = "") =>
       get_formatted_iteration_coordinate =
         RankSegment \o Join("|", CoordList(stack))

\* C13 witness: formatted with prefix run at rank 1 and one frame.
C13_Witness ==
  /\ prefix = "run"
  /\ MPI = 1
  /\ stack = << <<"root", 6>> >>
  /\ lastCoord = "run_rank1:root|6"

\* C14: Formatting is pure and deterministic.  A call leaves stack, prefix
\* and rank as they were and returns the coordinate of that state, and as
\* long as stack and prefix stay as they were at a call, a further call
\* returns the same string.
C14_Pure ==
  [][/\ lastCoord' # lastCoord =>
          /\ stack' = stack
          /\ prefix' = prefix
          /\ MPI' = MPI
          /\ lastCoord' = get_formatted_iteration_coordinate
     /\ (lastCoord = get_formatted_iteration_coordinate
          /\ stack' = stack /\ prefix' = prefix /\ MPI' = MPI)
        => lastCoord' = lastCoord]_vars

\* C14 witness: the coordinate was formatted inside two open scopes with a
\* prefix set, and stack and prefix are as the call found them.
C14_Witness ==
  /\ Len(open) = 2
  /\ Len(stack) = 2
  /\ prefix = "run"
  /\ lastCoord = get_formatted_iteration_coordinate

\* ------------------------------------------------- runs with a reset
\* (name, iter_count) arguments in the runs that reset the stack.
ResetFrameArgs == {<<"root", 6>>}

\* Variant: only the list of frames is replaced.
RecIterationInitStackOnly == [stack |-> <<>>, prefix |-> prefix]

\* _RecIteration.__init__: the attributes of a fresh iteration stack.
RecIterationInit == [stack |-> <<>>, prefix |-> None]

\* The iteration stack is put back into the state __init__ builds, at any
\* time, also while scopes are open.
Reset ==
  /\ exc = NoExc
  /\ stack' = RecIterationInit.stack
  /\ prefix' = RecIterationInit.prefix
  /\ UNCHANGED <<MPI, scopes, open, exc, lastExit, invocations, lifecycle,
                 lastCoord, nEnters>>

\* The caller of the runs with a reset constructs a Recording.
ConstructForReset == ConstructFrom(ResetFrameArgs, NonSolvers)

\* 'with rec:' in the runs with a reset, which nest one level deeper.
EnterForReset == EnterUpTo(MaxEnters + 1)

InitReset ==
  /\ stack = <<>>
  /\ prefix = None
  /\ MPI \in {-1, 0}
  /\ scopes = <<>>
  /\ open = <<>>
  /\ exc = NoExc
  /\ lastExit = NoExit
  /\ invocations = <<>>
  /\ lifecycle = <<>>
  /\ lastCoord = None
  /\ nEnters = 0

NextReset ==
  \/ ConstructForReset
  \/ EnterForReset
  \/ Exit
  \/ SetPrefix
  \/ Reset
  \/ FormatCall

SpecReset == InitReset /\ [][NextReset]_vars

C15_Reset ==
  [][Reset =>
       /\ stack' = <<>>
       /\ prefix' = None
       /\ FormatCoordinate(stack', prefix', MPI') = "rank0:"]_vars

\* C15 witness: the coordinate had been formatted with three frames and the
\* prefix run; then the stack was reset under the three open scopes.
C15_Witness ==
  /\ Len(open) = 3
  /\ lastCoord = "run_rank0:root|6|root|6|root|6"
  /\ stack = <<>>
  /\ prefix = None

\* ------------------------------------------- two unsynchronized threads
\* The threads that share recording_iteration.
Threads == {1, 2}

\* The thread that constructs, opens and closes Recording s: the threads
\* take turns constructing, each uses only its own objects.
ThreadOf(s) == IF s % 2 = 1 THEN 1 ELSE 2

\* A thread constructs a Recording; its record_iteration will return.
ConstructForThreads == ConstructFrom(FrameArgs, Solvers \cup NonSolvers)

\* A thread opens the Recording it has just constructed.
ThreadEnter ==
  EnterAmong(MaxEnters, {s \in DOMAIN scopes : lifecycle[s] = "Unopened"})

\* Some thread leaves its own innermost 'with' block, whatever the other
\* thread has open: rec.__exit__() runs on the shared stack.
ThreadExit ==
  /\ \E t \in Threads :
       LET mine == {i \in DOMAIN open : ThreadOf(open[i].scope) = t} IN
       /\ mine # {}
       /\ ExitBlock(CHOOSE i \in mine : \A j \in mine : j <= i, {"return"})
  /\ UNCHANGED <<prefix, MPI, lastCoord, nEnters>>

NextThreads ==
  \/ ConstructForThreads
  \/ ThreadEnter
  \/ ThreadExit

SpecThreads == Init /\ [][NextThreads]_vars

\* The stack holds the frames of the open scopes of both threads, in the
\* order they were opened.
StackMatchesOpen ==
  stack = [i \in 1..Len(open) |->
             <<scopes[open[i].scope].name, scopes[open[i].scope].iter_count>>]

\* C18: The shared stack is only safe under serialized use.  The stack stops
\* matching the open scopes only in a step where a thread closes a scope
\* while the scope opened last belongs to the other thread and is still
\* open; such a close pops the other thread's frame.
C18_OnlySerializedSafe ==
  [][(StackMatchesOpen /\ ~StackMatchesOpen') =>
       /\ Len(open') < Len(open)
       /\ ThreadOf(open[Len(open)].scope) # ThreadOf(lastExit'.scope)]_vars

\* C18 witness: thread 2 closed its scope root, pushed at index 2, when the
\* only frame on the stack was thread 1's _run_apply: it popped that frame
\* and its solver was not recorded.
C18_Witness ==
  /\ Exited
  /\ Len(scopes) = 2
  /\ scopes[1].name = "_run_apply"
  /\ scopes[2].name = "root"
  /\ lastExit.scope = 2
  /\ lastExit.preOpenDepth = 1
  /\ lastExit.stackBefore = << <<"_run_apply", 6>> >>
  /\ lastExit.requesterBefore = "solver"
  /\ lastExit.calls = <<>>
  /\ lastExit.popped
  /\ stack = <<>>

\* ------------------------------------------- coordinates of given stacks
\* Names without the separator character, and one name that contains it.
PlainNames == {"root", "6", ""}
PipeNames == {"root|6|root"}
CoordCounts == {6, 66}

StacksOver(names) ==
  UNION {[1..n -> names \X CoordCounts] : n \in 0..MaxCoordLen}

\* The module-level stack holds the frames pushed by the scopes open at the
\* time of the call.
InitCoord ==
  /\ stack \in StacksOver(PlainNames \cup PipeNames)
  /\ prefix \in PrefixValues
  /\ MPI \in MPIValues
  /\ scopes = <<>>
  /\ open = <<>>
  /\ exc = NoExc
  /\ lastExit = NoExit
  /\ invocations = <<>>
  /\ lifecycle = <<>>
  /\ lastCoord = None
  /\ nEnters = 0

NextCoord == FormatCall

SpecCoord == InitCoord /\ [][NextCoord]_vars

\* C19: Coordinate uniqueness.  With the prefix and the rank fixed, the
\* coordinate returned for a stack whose names hold no '|' is not the
\* coordinate of any other stack whose names hold no '|', whether the other
\* stack differs in length, in a name or in an iteration count.
C19_Unique ==
  (lastCoord # None /\ stack \in StacksOver(PlainNames)) =>
    \A other \in StacksOver(PlainNames) :
      other # stack => FormatCoordinate(other, prefix, MPI) # lastCoord

\* C19 witness: the two-frame stack (root, 6), (6, 66) was formatted; the
\* one-frame stack with the name 'root|6|6' would read the same.
C19_Witness ==
  /\ stack = << <<"root", 6>>, <<"6", 66>> >>
  /\ prefix = None
  /\ MPI = 0
  /\ lastCoord = "rank0:root|6|6|66"
====
